---- MODULE Spec2Model ----
(***************************************************************************)
(* State-machine model of the PaperCoder pipeline (src/Transformer_repo):  *)
(* main.run_pipeline and the five components it drives, PaperParser,       *)
(* Planner, Analyzer, CodeGenerator and Evaluator.                         *)
(*                                                                         *)
(* Text is modelled as a sequence of symbols.  " " is whitespace, "{" and  *)
(* "}" are the brace characters, "def" is the keyword def, and every other *)
(* symbol is a run of word characters: "learning_rate", "batch_size",      *)
(* "epochs", "n_way_sampling" and "evaluation_model" are the five          *)
(* placeholder names, so the marker {epochs} is the three symbols          *)
(* "{", "epochs", "}".                                                      *)
(*                                                                         *)
(* A JSON / YAML value is a record [k, s, i]: k is its kind ("absent" for  *)
(* a key that is not there, "null", "str", "int", "date" for a YAML        *)
(* timestamp), s the text of a string and i the number of an int.          *)
(***************************************************************************)
EXTENDS Integers, Sequences, FiniteSets, TLC

VARIABLES
    pc,          \* position of the run: the next step of run_pipeline, or of a component call
    config_file, \* the configuration resource config.yaml
    paper_file,  \* the paper resource paper.json
    config,      \* main's config, the result of load_configuration
    paper,       \* the parsed paper (PaperParser.parse)
    plan,        \* combined_plan: overall_plan, architecture_design, config
    analysis,    \* the analysis list (Analyzer.analyze_modules)
    repo,        \* generated_repo: file name -> generated text
    metrics,     \* evaluation_metrics (Evaluator.evaluate)
    err,         \* the exception the last call raised, "none" if it returned
    stages,      \* the stages run_pipeline has started, in order
    failed,      \* the stage that failed, "none" while none has
    exit_code,   \* the process exit code, -1 while the process runs
    printed      \* whether the final evaluation result has been printed

vars == <<pc, config_file, paper_file, config, paper, plan, analysis, repo,
          metrics, err, stages, failed, exit_code, printed>>

----------------------------------------------------------------------------
(* Bounds of the model *)

\* longest sequence drawn for abstract / body_text / back_matter
MaxItems == 2
\* longest analysis list handed to CodeGenerator directly
MaxModules == 2
\* largest n_way_sampling drawn for the configuration
MaxNWay == 2
\* longest file list handed to Analyzer directly
MaxNames == 3
\* how far from the excerpt limit the lengths of the planner's abstracts are drawn
MaxOver == 2
\* most calls made on one Planner
MaxCalls == 3

----------------------------------------------------------------------------
(* Values and text *)

Val(k, s, i) == [k |-> k, s |-> s, i |-> i]
Absent == Val("absent", <<>>, 0)
NullV == Val("null", <<>>, 0)
DateV == Val("date", <<>>, 0)
StrV(s) == Val("str", s, 0)
IntV(i) == Val("int", <<>>, i)

\* Python's str(value)
Str(v) ==
    CASE v.k = "str" -> v.s
      [] v.k = "int" -> <<ToString(v.i)>>
      [] v.k = "date" -> <<"2024-01-01">>
      [] OTHER -> <<"None">>

\* Python's truth value of a value
Truthy(v) ==
    CASE v.k = "str" -> v.s # <<>>
      [] v.k = "int" -> v.i # 0
      [] v.k = "date" -> TRUE
      [] OTHER -> FALSE

\* json.dumps can serialise the value (a datetime.date it cannot)
JsonSerializable(v) == v.k # "date"

IsSpace(c) == c \in {" ", "\n"}

RECURSIVE LStrip(_)
LStrip(s) == IF s # <<>> /\ IsSpace(Head(s)) THEN LStrip(Tail(s)) ELSE s

RECURSIVE RStrip(_)
RStrip(s) ==
    IF s # <<>> /\ IsSpace(s[Len(s)]) THEN RStrip(SubSeq(s, 1, Len(s) - 1)) ELSE s

\* PaperParser._clean_text: text.strip()
_clean_text(s) == RStrip(LStrip(s))

\* sep.join(segments)
RECURSIVE Join(_, _)
Join(segments, sep) ==
    IF segments = <<>> THEN <<>>
    ELSE IF Len(segments) = 1 THEN segments[1]
    ELSE segments[1] \o sep \o Join(Tail(segments), sep)

StartsWith(s, old) == Len(old) <= Len(s) /\ SubSeq(s, 1, Len(old)) = old

\* str.replace(old, new) for a non-empty old: the non-overlapping occurrences
\* of old, found from the left, are replaced; the inserted text is not rescanned
RECURSIVE Replace(_, _, _)
Replace(s, old, new) ==
    IF s = <<>> THEN <<>>
    ELSE IF StartsWith(s, old)
         THEN new \o Replace(SubSeq(s, Len(old) + 1, Len(s)), old, new)
         ELSE <<Head(s)>> \o Replace(Tail(s), old, new)

\* old in s
Contains(s, old) == \E i \in 1..(Len(s) - Len(old) + 1) : SubSeq(s, i, i + Len(old) - 1) = old

\* all sequences over S of length at most n
SeqsUpTo(S, n) == UNION {[1..m -> S] : m \in 0..n}

----------------------------------------------------------------------------
(* The configuration resource config.yaml and its two loaders *)

\* A section (training / evaluation) is absent, a mapping ("map") with fields f,
\* or something that is not a mapping ("nonmap": null or a number).
Section(k, f) == [k |-> k, f |-> f]
NoTraining == [learning_rate |-> Absent, batch_size |-> Absent, epochs |-> Absent]
NoEvaluation == [n_way_sampling |-> Absent, evaluation_model |-> Absent]

\* A configuration: of kind "unreadable" (open or safe_load raises), "empty"
\* (a falsy document), "nonmap" (a truthy document that is no mapping), "map",
\* and for an argument or a plan entry also "absent" (None / no such key).
Config(k, training, evaluation) == [k |-> k, training |-> training, evaluation |-> evaluation]
NoConfig(k) == Config(k, Section("absent", NoTraining), Section("absent", NoEvaluation))

DefaultNWay == 8
DefaultTraining ==
    [learning_rate |-> StrV(<<"0.001">>), batch_size |-> StrV(<<"32">>), epochs |-> StrV(<<"10">>)]
DefaultEvaluation ==
    [n_way_sampling |-> IntV(DefaultNWay), evaluation_model |-> StrV(<<"o3-mini-high">>)]
DefaultConfig ==
    Config("map", Section("map", DefaultTraining), Section("map", DefaultEvaluation))

\* dict.get(key, default) field by field
Fill(f, defaults) == [x \in DOMAIN f |-> IF f[x].k = "absent" THEN defaults[x] ELSE f[x]]

\* main.load_configuration: every exception inside the try block, the
\* TypeError of `"learning_rate" not in training_config` on a section that is
\* no mapping included, returns the complete default configuration
load_configuration(file) ==
    LET loaded == IF file.k = "empty" THEN DefaultConfig ELSE file
    IN  IF file.k = "unreadable" THEN DefaultConfig
        ELSE IF loaded.k # "map" THEN DefaultConfig
        ELSE IF loaded.training.k = "nonmap" \/ loaded.evaluation.k = "nonmap"
             THEN DefaultConfig
        ELSE Config("map",
                    Section("map", Fill(loaded.training.f, DefaultTraining)),
                    Section("map", Fill(loaded.evaluation.f, DefaultEvaluation)))

\* Planner.generate_config: only open / safe_load are inside the try block
GenerateConfigLoaded(file) ==
    IF file.k \in {"unreadable", "empty"} THEN NoConfig("map") ELSE file

\* loaded_config.get / training_config.get / evaluation_config.get on a value
\* that is no mapping raises AttributeError, outside the try block
GenerateConfigRaises(file) ==
    LET loaded == GenerateConfigLoaded(file)
    IN  \/ loaded.k # "map"
        \/ loaded.training.k = "nonmap"
        \/ loaded.evaluation.k = "nonmap"

\* generate_config with another default for the evaluation model
GenerateConfigOtherModel(file) ==
    LET loaded == GenerateConfigLoaded(file)
    IN  Config("map",
               Section("map", Fill(loaded.training.f, DefaultTraining)),
               Section("map", Fill(loaded.evaluation.f,
                                   [DefaultEvaluation EXCEPT !.evaluation_model = StrV(<<"gpt-x">>)])))

generate_config(file) ==
    LET loaded == GenerateConfigLoaded(file)
    IN  Config("map",
               Section("map", Fill(loaded.training.f, DefaultTraining)),
               Section("map", Fill(loaded.evaluation.f, DefaultEvaluation)))

Marker(name) == <<"{", name, "}">>

\* the configuration resources the model draws
LearningRates == {Absent, StrV(<<"0.01">>), StrV(Marker("epochs"))}
BatchSizes == {Absent, StrV(<<"64">>), StrV(Marker("learning_rate"))}
EpochCounts == {Absent, IntV(5), NullV}
NWaySamplings ==
    {Absent, NullV, StrV(<<"3">>)} \cup {IntV(i) : i \in (0 - 1)..MaxNWay}
EvaluationModels == {Absent, StrV(<<"gpt-x">>), DateV}

TrainingMaps ==
    {[learning_rate |-> a, batch_size |-> b, epochs |-> c] :
        a \in LearningRates, b \in BatchSizes, c \in EpochCounts}
EvaluationMaps ==
    {[n_way_sampling |-> n, evaluation_model |-> m] :
        n \in NWaySamplings, m \in EvaluationModels}
TrainingSections ==
    {Section("absent", NoTraining), Section("nonmap", NoTraining)}
        \cup {Section("map", f) : f \in TrainingMaps}
EvaluationSections ==
    {Section("absent", NoEvaluation), Section("nonmap", NoEvaluation)}
        \cup {Section("map", f) : f \in EvaluationMaps}
ConfigFiles ==
    {NoConfig("unreadable"), NoConfig("empty"), NoConfig("nonmap")}
        \cup {Config("map", t, e) : t \in TrainingSections, e \in EvaluationSections}

----------------------------------------------------------------------------
(* The paper resource paper.json and PaperParser *)

\* An entry of abstract / body_text / back_matter: a mapping ("dict") whose
\* "text" is absent, a string s or not a string ("nonstr": null or a number),
\* a plain string s ("str"), or anything else ("other").
Item(k, t, s) == [k |-> k, t |-> t, s |-> s]

\* The value of abstract / body_text / back_matter: absent, null, a list of
\* entries, a string, or another truthy value ("other": a mapping, a number).
Shape(k, items, s) == [k |-> k, items |-> items, s |-> s]
NoShape == Shape("absent", <<>>, <<>>)

\* pdf_parse: absent, a mapping ("map") with its abstract, or "nonmap" (null or
\* a number, on which `"abstract" in ...` raises TypeError)
PdfParse(k, abstract) == [k |-> k, abstract |-> abstract]

\* ref_entries: absent, a mapping ("map") with its keys, or "other"
RefEntries(k, keys) == [k |-> k, keys |-> keys]

ShapeTruthy(sh) ==
    CASE sh.k = "list" -> sh.items # <<>>
      [] sh.k = "str" -> sh.s # <<>>
      [] sh.k = "other" -> TRUE
      [] OTHER -> FALSE

\* PaperParser.__init__ with `and` for `or`: raises only when both are missing
PaperParserInitBothMissing(raw) ==
    IF raw.k # "map" \/ (raw.paper_id.k = "absent" /\ raw.title.k = "absent")
    THEN "ValueError" ELSE "none"

\* PaperParser.__init__, lines 15-28: ValueError iff paper_id or title is missing.  A document
\* that is no mapping (a list) has neither key.
PaperParserInit(raw) ==
    IF raw.k # "map" \/ raw.paper_id.k = "absent" \/ raw.title.k = "absent"
    THEN "ValueError" ELSE "none"

\* item.get("text", "") of a mapping entry
ItemText(item) == IF item.t = "str" THEN item.s ELSE <<>>

\* the loop of lines 66-72 (and 96-102, 112-118): a mapping entry contributes
\* its trimmed text when that is non-empty, a plain string its trimmed value
\* unconditionally, any other entry nothing
RECURSIVE Segments(_)
Segments(items) ==
    IF items = <<>> THEN <<>>
    ELSE LET item == Head(items)
             rest == Segments(Tail(items))
         IN  IF item.k = "dict"
             THEN IF _clean_text(ItemText(item)) # <<>>
                  THEN <<_clean_text(ItemText(item))>> \o rest
                  ELSE rest
             ELSE IF item.k = "str" THEN <<_clean_text(item.s)>> \o rest
             ELSE rest

\* the comprehension of lines 79-83: only mapping entries with non-blank text
RECURSIVE PdfSegments(_)
PdfSegments(items) ==
    IF items = <<>> THEN <<>>
    ELSE LET item == Head(items)
             rest == PdfSegments(Tail(items))
         IN  IF item.k = "dict" /\ _clean_text(ItemText(item)) # <<>>
             THEN <<_clean_text(ItemText(item))>> \o rest
             ELSE rest

\* _clean_text / .strip() of a "text" that is not a string raises AttributeError
ItemsRaise(items) == \E i \in 1..Len(items) : items[i].k = "dict" /\ items[i].t = "nonstr"

AbstractFromRaw(raw) == raw.abstract.k # "absent" /\ ShapeTruthy(raw.abstract)
AbstractFromPdf(raw) ==
    /\ ~AbstractFromRaw(raw)
    /\ raw.pdf_parse.k = "map"
    /\ raw.pdf_parse.abstract.k # "absent"

\* lines 61-90
ParseAbstract(raw) ==
    IF AbstractFromRaw(raw)
    THEN IF raw.abstract.k = "list" THEN Join(Segments(raw.abstract.items), <<" ">>)
         ELSE IF raw.abstract.k = "str" THEN _clean_text(raw.abstract.s)
         ELSE <<>>
    ELSE IF AbstractFromPdf(raw)
    THEN IF raw.pdf_parse.abstract.k = "list"
         THEN Join(PdfSegments(raw.pdf_parse.abstract.items), <<" ">>)
         ELSE IF raw.pdf_parse.abstract.k = "str" THEN _clean_text(raw.pdf_parse.abstract.s)
         ELSE <<>>
    ELSE <<>>

\* lines 92-107
ParseBody(raw) ==
    IF raw.body_text.k = "list" THEN Join(Segments(raw.body_text.items), <<"\n">>) ELSE <<>>

\* lines 109-119
ParseFigures(raw) ==
    IF raw.back_matter.k = "list" THEN Segments(raw.back_matter.items) ELSE <<>>

\* lines 121-127
ParseRefEntries(raw) == IF raw.ref_entries.k = "map" THEN raw.ref_entries.keys ELSE {}

\* the exception PaperParser.parse raises, "none" if it returns
ParseError(raw) ==
    IF AbstractFromRaw(raw) /\ raw.abstract.k = "list" /\ ItemsRaise(raw.abstract.items)
    THEN "AttributeError"
    ELSE IF ~AbstractFromRaw(raw) /\ raw.pdf_parse.k = "nonmap" THEN "TypeError"
    ELSE IF AbstractFromPdf(raw) /\ raw.pdf_parse.abstract.k = "list"
            /\ ItemsRaise(raw.pdf_parse.abstract.items)
    THEN "AttributeError"
    ELSE IF raw.body_text.k = "list" /\ ItemsRaise(raw.body_text.items) THEN "AttributeError"
    ELSE IF raw.back_matter.k = "list" /\ ItemsRaise(raw.back_matter.items) THEN "AttributeError"
    ELSE "none"

Paper(paper_id, title, abstract, body_text, figures, ref_entries) ==
    [paper_id |-> paper_id, title |-> title, abstract |-> abstract,
     body_text |-> body_text, figures |-> figures, ref_entries |-> ref_entries]
NoPaper == Paper(<<>>, <<>>, <<>>, <<>>, <<>>, {})

\* PaperParser.parse, lines 42-129
parse(raw) ==
    Paper(_clean_text(Str(raw.paper_id)), _clean_text(Str(raw.title)),
          ParseAbstract(raw), ParseBody(raw), ParseFigures(raw), ParseRefEntries(raw))

RawPaper(k, paper_id, title, abstract, body_text, back_matter, ref_entries, pdf_parse) ==
    [k |-> k, paper_id |-> paper_id, title |-> title, abstract |-> abstract,
     body_text |-> body_text, back_matter |-> back_matter,
     ref_entries |-> ref_entries, pdf_parse |-> pdf_parse]
NoRawPaper(k) ==
    RawPaper(k, Absent, Absent, NoShape, NoShape, NoShape,
             RefEntries("absent", {}), PdfParse("absent", NoShape))

\* the papers the model draws
Texts == {<<>>, <<" ">>, <<"x">>, <<" ", "x", " ">>, <<"x", " ", "y">>}
Items ==
    {Item("dict", "str", s) : s \in Texts}
        \cup {Item("str", "str", s) : s \in Texts}
        \cup {Item("dict", "absent", <<>>), Item("dict", "nonstr", <<>>),
              Item("other", "absent", <<>>)}
Shapes ==
    {NoShape, Shape("null", <<>>, <<>>), Shape("other", <<>>, <<>>)}
        \cup {Shape("str", <<>>, s) : s \in Texts}
        \cup {Shape("list", items, <<>>) : items \in SeqsUpTo(Items, MaxItems)}
PaperIds == {Absent, StrV(<<" ", "p1">>), IntV(7)}
Titles == {Absent, StrV(<<"T", " ">>)}
AllRefEntries == {RefEntries("absent", {}), RefEntries("other", {}), RefEntries("map", {"REF1"})}
\* a paper record with one of its optional fields drawn from the shapes
RawPapers ==
    LET Base(i, t) ==
            RawPaper("map", i, t, NoShape, NoShape, NoShape,
                     RefEntries("absent", {}), PdfParse("absent", NoShape))
    IN  UNION {
            {[Base(i, t) EXCEPT !.abstract = sh] : sh \in Shapes}
              \cup {[Base(i, t) EXCEPT !.body_text = sh] : sh \in Shapes}
              \cup {[Base(i, t) EXCEPT !.back_matter = sh] : sh \in Shapes}
              \cup {[Base(i, t) EXCEPT !.pdf_parse = PdfParse("map", sh)] : sh \in Shapes}
              \cup {[Base(i, t) EXCEPT !.abstract = a, !.pdf_parse = PdfParse("map", sh)] :
                        a \in {Shape("null", <<>>, <<>>), Shape("list", <<>>, <<>>),
                               Shape("other", <<>>, <<>>)},
                        sh \in Shapes}
              \cup {[Base(i, t) EXCEPT !.abstract = a, !.pdf_parse = PdfParse("nonmap", NoShape)] :
                        a \in {NoShape, Shape("str", <<>>, <<"x">>)}}
              \cup {[Base(i, t) EXCEPT !.ref_entries = r] : r \in AllRefEntries}
            : i \in PaperIds, t \in Titles}

----------------------------------------------------------------------------
(* Planner *)

ExcerptLimit == 200

\* the excerpt with `>=` for `>`: an abstract of exactly 200 gets the ellipsis
AbstractExcerptFrom200(abstract) ==
    IF Len(abstract) >= ExcerptLimit
    THEN SubSeq(abstract, 1, ExcerptLimit) \o <<".", ".", ".">>
    ELSE abstract

\* abstract[:200] + ("..." if len(abstract) > 200 else "")
AbstractExcerpt(abstract) ==
    IF Len(abstract) > ExcerptLimit
    THEN SubSeq(abstract, 1, ExcerptLimit) \o <<".", ".", ".">>
    ELSE abstract

OverallPlan(k, title, ambiguous_details, abstract_excerpt) ==
    [k |-> k, implementation_goal |-> <<"Reproduce", " ">> \o title,
     ambiguous_details |-> ambiguous_details,
     paper_summary |-> [title |-> title, abstract_excerpt |-> abstract_excerpt]]
NoOverallPlan == [OverallPlan("absent", <<>>, <<>>, <<>>) EXCEPT !.implementation_goal = <<>>]

\* Planner.create_overall_plan, lines 28-72
create_overall_plan(p) ==
    OverallPlan("map", p.title,
                (IF p.abstract = <<>> THEN <<"Abstract is missing">> ELSE <<>>)
                    \o (IF p.body_text = <<>> THEN <<"Body text is missing">> ELSE <<>>),
                AbstractExcerpt(p.abstract))

MainPy == StrV(<<"main.py">>)
PaperParserPy == StrV(<<"paper_parser.py">>)
PlannerPy == StrV(<<"planner.py">>)
AnalyzerPy == StrV(<<"analyzer.py">>)
CodeGeneratorPy == StrV(<<"code_generator.py">>)
EvaluationPy == StrV(<<"evaluation.py">>)

\* file_list: absent, or a list of names
FileList(k, names) == [k |-> k, names |-> names]

\* architecture_design: absent, or a mapping with (some of) its three entries
Arch(k, file_list, class_diagram, sequence_diagram) ==
    [k |-> k, file_list |-> file_list, class_diagram |-> class_diagram,
     sequence_diagram |-> sequence_diagram]
NoArch(k) == Arch(k, FileList("absent", <<>>), Absent, Absent)

\* the file list of lines 88-96
PlannerFileList ==
    <<MainPy, PaperParserPy, PlannerPy, AnalyzerPy, CodeGeneratorPy, EvaluationPy>>

\* an architecture whose file list names planner.py twice and analyzer.py never
ArchitectureWithDuplicate ==
    Arch("map",
         FileList("list", <<MainPy, PaperParserPy, PlannerPy, PlannerPy, CodeGeneratorPy,
                            EvaluationPy>>),
         StrV(<<"classDiagram">>), StrV(<<"sequenceDiagram">>))

\* Planner.generate_architecture_design, lines 74-156
generate_architecture_design ==
    Arch("map", FileList("list", PlannerFileList),
         StrV(<<"classDiagram">>), StrV(<<"sequenceDiagram">>))

\* a plan: None ("null") or a mapping with (some of) its three entries
Plan(k, overall_plan, architecture_design, cfg) ==
    [k |-> k, overall_plan |-> overall_plan,
     architecture_design |-> architecture_design, config |-> cfg]
NoPlan(k) == Plan(k, NoOverallPlan, NoArch("absent"), NoConfig("absent"))

\* `not plan`
PlanEmpty(p) ==
    \/ p.k = "null"
    \/ /\ p.overall_plan.k = "absent"
       /\ p.architecture_design.k = "absent"
       /\ p.config.k = "absent"

----------------------------------------------------------------------------
(* Analyzer *)

\* the default file list of Analyzer.__init__, lines 26-33 and 37-44
AnalyzerDefaultFileList ==
    <<MainPy, PaperParserPy, PlannerPy, AnalyzerPy, CodeGeneratorPy, EvaluationPy>>

\* `not self.architecture_design`: the entry is missing or an empty mapping
ArchEmpty(a) ==
    \/ a.k = "absent"
    \/ /\ a.file_list.k = "absent"
       /\ a.class_diagram.k = "absent"
       /\ a.sequence_diagram.k = "absent"

\* self.file_list without the second fallback (lines 34-43): an empty or
\* missing file list of a non-empty architecture stays empty
AnalyzerFileListNoDefault(p) ==
    LET a == p.architecture_design
    IN  IF ArchEmpty(a) THEN AnalyzerDefaultFileList
        ELSE IF a.file_list.k = "absent" THEN <<>>
        ELSE a.file_list.names

\* Analyzer.__init__, lines 13-43: self.file_list
AnalyzerFileList(p) ==
    LET a == p.architecture_design
    IN  IF ArchEmpty(a) THEN AnalyzerDefaultFileList
        ELSE IF a.file_list.k = "absent" \/ a.file_list.names = <<>>
             THEN AnalyzerDefaultFileList
        ELSE a.file_list.names

\* Analyzer.__init__, lines 21-33: the plan after the constructor.  An empty
\* mapping stored in the plan is the very object that receives the default
\* file list; a missing entry is replaced by a fresh mapping the plan never sees.
AnalyzerPlanAfter(p) ==
    IF p.architecture_design.k = "map" /\ ArchEmpty(p.architecture_design)
    THEN [p EXCEPT !.architecture_design.file_list = FileList("list", AnalyzerDefaultFileList)]
    ELSE p

ModuleSpec(functionality, expected_inputs, expected_outputs, dependencies) ==
    [functionality |-> functionality,
     expected_inputs |-> expected_inputs, expected_outputs |-> expected_outputs,
     dependencies |-> dependencies]

\* the keys of module_specs, lines 63-124
ModuleSpecNames ==
    {PaperParserPy, PlannerPy, AnalyzerPy, CodeGeneratorPy, EvaluationPy, MainPy}

\* module_specs, lines 63-124 (the functionality sentences shortened to their
\* first words; none of them holds a brace)
module_specs(name) ==
    CASE name = PaperParserPy ->
            ModuleSpec(<<"Parses", " ", "the", " ", "input", " ", "paper">>,
                       <<"Raw paper JSON">>, <<"Structured Paper object (dict)">>, <<>>)
      [] name = PlannerPy ->
            ModuleSpec(<<"Generates", " ", "an", " ", "overall", " ", "plan">>,
                       <<"Structured Paper object (from paper_parser.py)">>,
                       <<"Overall plan dictionary", "Architecture design dictionary",
                         "Configuration details dictionary">>,
                       <<PaperParserPy>>)
      [] name = AnalyzerPy ->
            ModuleSpec(<<"Analyzes", " ", "the", " ", "Planner's", " ", "output">>,
                       <<"Plan dictionary">>, <<"List of file-level analysis dictionaries">>,
                       <<PlannerPy>>)
      [] name = CodeGeneratorPy ->
            ModuleSpec(<<"Generates", " ", "modular", " ", "code", " ", "templates">>,
                       <<"Overall plan dictionary", "Detailed file-level analysis from Analyzer">>,
                       <<"Dictionary of generated code files">>,
                       <<PlannerPy, AnalyzerPy>>)
      [] name = EvaluationPy ->
            ModuleSpec(<<"Evaluates", " ", "the", " ", "generated", " ", "repository">>,
                       <<"Generated repository (from code_generator.py)">>,
                       <<"Evaluation metrics dictionary">>,
                       <<CodeGeneratorPy>>)
      [] name = MainPy ->
            ModuleSpec(<<"Orchestrates", " ", "the", " ", "entire", " ", "pipeline">>,
                       <<"Configuration details and outputs from all modules">>,
                       <<"Final code repository and evaluation metrics">>,
                       <<PaperParserPy, PlannerPy, AnalyzerPy, CodeGeneratorPy, EvaluationPy>>)

\* the fallback with the dependencies of main.py left in it
DefaultModuleSpecWithDependencies ==
    ModuleSpec(<<"No", " ", "specific", " ", "functionality", " ", "defined.">>,
               <<>>, <<>>, <<PaperParserPy, PlannerPy>>)

\* the fallback of lines 129-136
DefaultModuleSpec ==
    ModuleSpec(<<"No", " ", "specific", " ", "functionality", " ", "defined.">>,
               <<>>, <<>>, <<>>)

\* module_specs without its "main.py" entry
SpecOfWithoutMain(name) ==
    IF name \in ModuleSpecNames \ {MainPy} THEN module_specs(name) ELSE DefaultModuleSpec

\* module_specs.get(file_name) with the fallback
SpecOf(name) == IF name \in ModuleSpecNames THEN module_specs(name) ELSE DefaultModuleSpec

\* the analysis dictionary of lines 137-143
ModuleAnalysis(name, spec) ==
    [file_name |-> name, functionality |-> spec.functionality,
     expected_inputs |-> spec.expected_inputs,
     expected_outputs |-> spec.expected_outputs,
     dependencies |-> spec.dependencies]

\* analyze_modules leaving out the names that module_specs does not hold
AnalyzeKnownModules(file_list) ==
    LET Known(name) == name \in ModuleSpecNames
        known == SelectSeq(file_list, Known)
    IN  [i \in 1..Len(known) |-> ModuleAnalysis(known[i], SpecOf(known[i]))]

\* Analyzer.analyze_modules, lines 126-147
analyze_modules(file_list) == [i \in 1..Len(file_list) |-> ModuleAnalysis(file_list[i], SpecOf(file_list[i]))]

\* an analysis list: None ("null") or a list of analysis dictionaries
AnalysisList(k, items) == [k |-> k, items |-> items]

\* Analyzer.__init__, line 22: self.plan.get on a plan that is None raises
AnalyzerInit(p) == IF p.k = "null" THEN "AttributeError" ELSE "none"

----------------------------------------------------------------------------
(* CodeGenerator *)

\* CodeGenerator.__init__ without its check of the plan
CodeGeneratorInitAnalysisOnly(a, p) ==
    IF a.k = "null" \/ a.items = <<>> THEN "ValueError" ELSE "none"

\* CodeGenerator.__init__, lines 21-36: `not analysis`, then `not plan`
CodeGeneratorInit(a, p) ==
    IF a.k = "null" \/ a.items = <<>> THEN "ValueError"
    ELSE IF PlanEmpty(p) THEN "ValueError"
    ELSE "none"

\* lines 72-79: the template shared by the modules that are already implemented
ImplementedTemplate(name, details) ==
    <<"Module:", " ">> \o name \o <<"\n">> \o details
        \o <<"\n", "This", " ", "module", " ", "is", " ", "already", " ", "implemented", "\n",
             "#", " ", "The", " ", "implementation", " ", "for", " ">>
        \o name \o <<" ", "is", " ", "provided", " ", "elsewhere", "\n">>

\* lines 82-122: the two placeholders, the two methods and the metrics literal
EvaluationTemplate ==
    <<"Module:", " ", "evaluation.py", "\n",
      "n_way_sampling", ":", " ", "{", "n_way_sampling", "}", "\n",
      "evaluation_model", ":", " ", "{", "evaluation_model", "}", "\n",
      "class", " ", "Evaluator", "\n",
      "def", " ", "__init__", "\n",
      "def", " ", "evaluate", "\n",
      "metrics", " ", "=", " ", "{", "\n", "reference_based", "\n", "}", "\n">>

\* a main.py template that holds the placeholder {epochs}
MainTemplateWithEpochs ==
    <<"Module:", " ", "main.py", "\n",
      "epochs", ":", " ", "{", "epochs", "}", "\n",
      "def", " ", "main", "\n",
      "combined_plan", " ", "=", " ", "{", "\n", "overall_plan", "\n", "}", "\n">>

\* lines 125-188: no placeholder, one function, the combined_plan literal
MainTemplate ==
    <<"Module:", " ", "main.py", "\n",
      "def", " ", "main", "\n",
      "combined_plan", " ", "=", " ", "{", "\n", "overall_plan", "\n", "}", "\n">>

\* lines 191-231: the literal opened on line 191 runs to the next triple quote
\* (line 231); it holds the three training placeholders, three methods and
\* the empty braces of generated_code
CodeGeneratorTemplate(name, details) ==
    <<"Module:", " ">> \o name \o <<"\n">> \o details
        \o <<"\n", "training.", "learning_rate", ":", " ", "{", "learning_rate", "}", "\n",
             "training.", "batch_size", ":", " ", "{", "batch_size", "}", "\n",
             "training.", "epochs", ":", " ", "{", "epochs", "}", "\n",
             "class", " ", "CodeGenerator", "\n",
             "def", " ", "__init__", "\n",
             "def", " ", "generate_code", "\n",
             "generated_code", " ", "=", " ", "{", "}", "\n",
             "def", " ", "_generate_template", "\n",
             "return", " ", "f">>

\* lines 314-321: the fallback template
GenericTemplate(name, details) ==
    <<"Module:", " ">> \o name \o <<"\n">> \o details
        \o <<"\n", "This", " ", "is", " ", "a", " ", "generated", " ", "module", "\n",
             "#", " ", "Generated", " ", "code", " ", "for", " ">> \o name \o <<"\n">>

\* CodeGenerator._generate_template, lines 59-322
_generate_template(file_name, details) ==
    IF file_name \in {PaperParserPy, PlannerPy, AnalyzerPy}
    THEN ImplementedTemplate(Str(file_name), details)
    ELSE IF file_name = EvaluationPy THEN EvaluationTemplate
    ELSE IF file_name = MainPy THEN MainTemplate
    ELSE IF file_name = CodeGeneratorPy THEN CodeGeneratorTemplate(Str(file_name), details)
    ELSE GenericTemplate(Str(file_name), details)

\* lines 334-336: `.get` on a config / section that is no mapping raises
InjectRaises(p) ==
    \/ p.config.k \notin {"absent", "map"}
    \/ /\ p.config.k = "map"
       /\ (p.config.training.k = "nonmap" \/ p.config.evaluation.k = "nonmap")

\* the defaults of lines 339-343 (there n_way_sampling defaults to the text "8")
InjectDefaultTraining == DefaultTraining
InjectDefaultEvaluation ==
    [n_way_sampling |-> StrV(<<"8">>), evaluation_model |-> StrV(<<"o3-mini-high">>)]

\* _inject_configuration without the replacement of {epochs}
InjectWithoutEpochs(p, template) ==
    LET training_config == Fill(p.config.training.f, InjectDefaultTraining)
        evaluation_config == Fill(p.config.evaluation.f, InjectDefaultEvaluation)
        t1 == Replace(template, Marker("learning_rate"), Str(training_config.learning_rate))
        t2 == Replace(t1, Marker("batch_size"), Str(training_config.batch_size))
        t4 == Replace(t2, Marker("n_way_sampling"), Str(evaluation_config.n_way_sampling))
    IN  Replace(t4, Marker("evaluation_model"), Str(evaluation_config.evaluation_model))

\* CodeGenerator._inject_configuration, lines 324-344: five replacements, one
\* after the other, each on the result of the one before
_inject_configuration(p, template) ==
    LET training_config == Fill(p.config.training.f, InjectDefaultTraining)
        evaluation_config == Fill(p.config.evaluation.f, InjectDefaultEvaluation)
        t1 == Replace(template, Marker("learning_rate"), Str(training_config.learning_rate))
        t2 == Replace(t1, Marker("batch_size"), Str(training_config.batch_size))
        t3 == Replace(t2, Marker("epochs"), Str(training_config.epochs))
        t4 == Replace(t3, Marker("n_way_sampling"), Str(evaluation_config.n_way_sampling))
    IN  Replace(t4, Marker("evaluation_model"), Str(evaluation_config.evaluation_model))

\* `not file_name` is false: the module is generated
ValidModule(module) == Truthy(module.file_name)

\* generated_code[file_name] = final_code
Put(r, name, code) == [k \in DOMAIN r \cup {name} |-> IF k = name THEN code ELSE r[k]]

EmptyRepo == [k \in {} |-> <<>>]

\* generate_code with `break` for `continue`: a module without a name ends the loop
RECURSIVE GenerateCodeStopAtInvalid(_, _, _)
GenerateCodeStopAtInvalid(items, p, generated_code) ==
    IF items = <<>> THEN generated_code
    ELSE LET module == Head(items)
         IN  IF ~ValidModule(module) THEN generated_code
             ELSE GenerateCodeStopAtInvalid(Tail(items), p,
                      Put(generated_code, module.file_name,
                          _inject_configuration(p,
                              _generate_template(module.file_name, module.functionality))))

\* CodeGenerator.generate_code, lines 38-57
RECURSIVE GenerateCode(_, _, _)
GenerateCode(items, p, generated_code) ==
    IF items = <<>> THEN generated_code
    ELSE LET module == Head(items)
         IN  IF ~ValidModule(module) THEN GenerateCode(Tail(items), p, generated_code)
             ELSE GenerateCode(Tail(items), p,
                      Put(generated_code, module.file_name,
                          _inject_configuration(p,
                              _generate_template(module.file_name, module.functionality))))

generate_code(a, p) == GenerateCode(a.items, p, EmptyRepo)

\* generate_code raises as soon as a valid module reaches _inject_configuration
GenerateCodeError(a, p) ==
    IF InjectRaises(p) /\ \E i \in 1..Len(a.items) : ValidModule(a.items[i])
    THEN "AttributeError" ELSE "none"

----------------------------------------------------------------------------
(* Evaluator *)

GoldStandard == StrV(<<"gold_standard">>)

\* Evaluator.__init__, lines 41-55: self.config.  Without a config argument the
\* constructor reads config.yaml itself.
EvaluatorConfig(cfg, file) ==
    IF cfg.k # "absent" THEN cfg
    ELSE IF file.k \in {"unreadable", "empty"} THEN NoConfig("map")
    ELSE file

\* Evaluator.__init__ without its check of the repository
EvaluatorInitNoRepositoryCheck(r, cfg, file) ==
    IF EvaluatorConfig(cfg, file).k # "map" THEN "AttributeError"
    ELSE IF EvaluatorConfig(cfg, file).evaluation.k = "nonmap" THEN "AttributeError"
    ELSE "none"

\* Evaluator.__init__, lines 24-62: the exception it raises
EvaluatorInit(r, cfg, file) ==
    IF DOMAIN r = {} THEN "ValueError"
    ELSE IF EvaluatorConfig(cfg, file).k # "map" THEN "AttributeError"
    ELSE IF EvaluatorConfig(cfg, file).evaluation.k = "nonmap" THEN "AttributeError"
    ELSE "none"

\* lines 58-60: n_way_sampling and evaluation_model with their defaults
EvaluatorSettings(cfg, file) == Fill(EvaluatorConfig(cfg, file).evaluation.f, DefaultEvaluation)

\* len(code.split()): the maximal runs of symbols that are not whitespace
RECURSIVE TokenCount(_)
TokenCount(code) ==
    IF code = <<>> THEN 0
    ELSE IF IsSpace(Head(code)) THEN TokenCount(Tail(code))
    ELSE IF Len(code) > 1 /\ ~IsSpace(code[2]) THEN TokenCount(Tail(code))
    ELSE 1 + TokenCount(Tail(code))

\* the count of def without the word boundaries: len(re.findall(r'def', code))
DefCountNoBoundary(code) == Cardinality({i \in 1..Len(code) : code[i] = "def"})

\* a symbol made of word characters (\w)
IsWord(c) == c \notin {" ", "\n", "{", "}", ":", "=", "#", "."}

\* len(re.findall(r'\bdef\b', code)): def with no word character on either side
DefCount(code) ==
    Cardinality({i \in 1..Len(code) :
        /\ code[i] = "def"
        /\ (i = 1 \/ ~IsWord(code[i - 1]))
        /\ (i = Len(code) \/ ~IsWord(code[i + 1]))})

RECURSIVE TotalTokens(_, _)
TotalTokens(r, keys) ==
    IF keys = {} THEN 0
    ELSE LET k == CHOOSE x \in keys : TRUE
         IN  TokenCount(r[k]) + TotalTokens(r, keys \ {k})

RECURSIVE FunctionCount(_, _)
FunctionCount(r, keys) ==
    IF keys = {} THEN 0
    ELSE LET k == CHOOSE x \in keys : TRUE
         IN  DefCount(r[k]) + FunctionCount(r, keys \ {k})

\* Evaluator._compute_summary_statistics, lines 64-90
_compute_summary_statistics(r) ==
    [file_count |-> Cardinality(DOMAIN r),
     total_tokens |-> TotalTokens(r, DOMAIN r),
     function_count |-> FunctionCount(r, DOMAIN r)]
NoStatistics == [file_count |-> 0, total_tokens |-> 0, function_count |-> 0]

\* str.lower() of the symbols the prompts are made of
Lower(s) ==
    [i \in 1..Len(s) |->
        CASE s[i] = "Evaluate" -> "evaluate"
          [] s[i] = "No" -> "no"
          [] s[i] = "Provide" -> "provide"
          [] OTHER -> s[i]]

\* the stub answering 4.0 to every prompt
SimulateGoldStandardScore(prompt) == 400

\* scores are held in hundredths: 4.5 is 450
\* Evaluator._simulate_llm_evaluation, lines 92-109
_simulate_llm_evaluation(prompt) ==
    IF Contains(Lower(prompt), <<"gold-standard">>) THEN 400 ELSE 450

\* the reference-based prompt without the word gold-standard
PromptRefPlain(has_gold_standard) ==
    <<"Evaluate", " ", "the", " ", "generated", " ", "repository.">>

\* lines 140-147
PromptRef(has_gold_standard) ==
    IF has_gold_standard
    THEN <<"Evaluate", " ", "the", " ", "generated", " ", "repository", " ", "against",
           " ", "the", " ", "gold-standard", " ", "repository.">>
    ELSE <<"No", " ", "gold-standard", " ", "available.">>
PromptFree ==
    <<"Evaluate", " ", "the", " ", "generated", " ", "repository", " ", "based", " ",
      "solely", " ", "on", " ", "the", " ", "paper.", " ", "Provide", " ", "a", " ", "score.">>

\* the calls of _simulate_llm_evaluation made by the loop of lines 150-155, in
\* order: per iteration one for prompt_ref when there is a gold standard, then
\* one for prompt_free
RECURSIVE StubCalls(_, _)
StubCalls(has_gold_standard, n) ==
    IF n <= 0 THEN <<>>
    ELSE (IF has_gold_standard THEN <<"prompt_ref">> ELSE <<>>) \o <<"prompt_free">>
             \o StubCalls(has_gold_standard, n - 1)

\* the samples of lines 150-155: one per iteration of range(n_way_sampling)
Samples(n, prompt) == [i \in 1..n |-> _simulate_llm_evaluation(prompt)]

RECURSIVE Sum(_)
Sum(scores) == IF scores = <<>> THEN 0 ELSE Head(scores) + Sum(Tail(scores))

\* round(sum(scores) / len(scores), 2) if scores else None
Score(k, i) == [k |-> k, i |-> i]
\* the mean that reports zero for no samples
AverageOrZero(scores) ==
    IF scores = <<>> THEN Score("num", 0) ELSE Score("num", Sum(scores) \div Len(scores))
Average(scores) ==
    IF scores = <<>> THEN Score("none", 0) ELSE Score("num", Sum(scores) \div Len(scores))

HumanScore == 420

Metrics(k, ref_based, ref_free, human, stats, model, n_way) ==
    [k |-> k, reference_based_score |-> ref_based, reference_free_score |-> ref_free,
     human_score |-> human, summary_statistics |-> stats,
     evaluation_model |-> model, n_way_sampling |-> n_way]
NoMetrics == Metrics("none", Score("none", 0), Score("none", 0), 0, NoStatistics, Absent, Absent)

\* range(self.n_way_sampling) raises TypeError unless n_way_sampling is an int
EvaluateError(settings) == IF settings.n_way_sampling.k # "int" THEN "TypeError" ELSE "none"

\* Evaluator.evaluate, lines 111-174
evaluate(r, settings) ==
    LET has_gold_standard == GoldStandard \in DOMAIN r
        n == settings.n_way_sampling.i
        ref_based_scores ==
            IF has_gold_standard THEN Samples(n, PromptRef(has_gold_standard)) ELSE <<>>
        ref_free_scores == Samples(n, PromptFree)
    IN  Metrics("map",
                IF has_gold_standard THEN Average(ref_based_scores) ELSE Score("none", 0),
                Average(ref_free_scores), HumanScore, _compute_summary_statistics(r),
                settings.evaluation_model, settings.n_way_sampling)

\* json.dumps(evaluation_metrics) succeeds
MetricsSerializable(m) ==
    JsonSerializable(m.evaluation_model) /\ JsonSerializable(m.n_way_sampling)

----------------------------------------------------------------------------
(* main.run_pipeline *)

StageOrder == <<"parse", "plan", "analysis", "codegen", "evaluate">>

\* sys.exit(1) out of a stage
Exit(stage, e) ==
    /\ pc' = "done"
    /\ failed' = stage
    /\ err' = e
    /\ exit_code' = 1

\* a step that neither fails nor ends the run
Continue(next) ==
    /\ pc' = next
    /\ UNCHANGED <<failed, err, exit_code>>

\* lines 118-121
LoadConfiguration ==
    /\ pc = "load_config"
    /\ config' = load_configuration(config_file)
    /\ Continue("load_paper")
    /\ UNCHANGED <<config_file, paper_file, paper, plan, analysis, repo, metrics, stages, printed>>

\* lines 123-129: load_paper returns {} when the file cannot be read
LoadPaper ==
    /\ pc = "load_paper"
    /\ IF paper_file.k \in {"unreadable", "empty"}
       THEN Exit("load_paper", "none")
       ELSE Continue("parse")
    /\ UNCHANGED <<config_file, paper_file, config, paper, plan, analysis, repo, metrics,
                   stages, printed>>

\* the parsing stage with the sys.exit(1) of its except block left out
ParsingStageNoExit ==
    /\ pc = "parse"
    /\ stages' = Append(stages, "parse")
    /\ pc' = "plan"
    /\ LET e == IF PaperParserInit(paper_file) # "none"
                THEN PaperParserInit(paper_file) ELSE ParseError(paper_file)
       IN  IF e # "none"
           THEN failed' = "parse" /\ err' = e /\ UNCHANGED <<paper, exit_code>>
           ELSE paper' = parse(paper_file) /\ UNCHANGED <<failed, err, exit_code>>
    /\ UNCHANGED <<config_file, paper_file, config, plan, analysis, repo, metrics, printed>>

\* lines 131-139
ParsingStage ==
    /\ pc = "parse"
    /\ stages' = Append(stages, "parse")
    /\ LET e == IF PaperParserInit(paper_file) # "none"
                THEN PaperParserInit(paper_file) ELSE ParseError(paper_file)
       IN  IF e # "none"
           THEN Exit("parse", e) /\ UNCHANGED paper
           ELSE Continue("plan") /\ paper' = parse(paper_file)
    /\ UNCHANGED <<config_file, paper_file, config, plan, analysis, repo, metrics, printed>>

\* lines 141-156
PlanningStage ==
    /\ pc = "plan"
    /\ stages' = Append(stages, "plan")
    /\ IF GenerateConfigRaises(config_file)
       THEN Exit("plan", "AttributeError") /\ UNCHANGED plan
       ELSE /\ Continue("analysis")
            /\ plan' = Plan("map", create_overall_plan(paper), generate_architecture_design,
                            generate_config(config_file))
    /\ UNCHANGED <<config_file, paper_file, config, paper, analysis, repo, metrics, printed>>

\* lines 158-168
AnalysisStage ==
    /\ pc = "analysis"
    /\ stages' = Append(stages, "analysis")
    /\ plan' = AnalyzerPlanAfter(plan)
    /\ analysis' = AnalysisList("list", analyze_modules(AnalyzerFileList(plan)))
    /\ IF analysis'.items = <<>> THEN Exit("analysis", "none") ELSE Continue("codegen")
    /\ UNCHANGED <<config_file, paper_file, config, paper, repo, metrics, printed>>

\* lines 170-180
CodeGenerationStage ==
    /\ pc = "codegen"
    /\ stages' = Append(stages, "codegen")
    /\ LET e == IF CodeGeneratorInit(analysis, plan) # "none"
                THEN CodeGeneratorInit(analysis, plan) ELSE GenerateCodeError(analysis, plan)
       IN  IF e # "none"
           THEN Exit("codegen", e) /\ UNCHANGED repo
           ELSE /\ repo' = generate_code(analysis, plan)
                /\ IF DOMAIN repo' = {} THEN Exit("codegen", "none") ELSE Continue("evaluate")
    /\ UNCHANGED <<config_file, paper_file, config, paper, plan, analysis, metrics, printed>>

\* lines 182-189
EvaluationStage ==
    /\ pc = "evaluate"
    /\ stages' = Append(stages, "evaluate")
    /\ LET settings == EvaluatorSettings(config, config_file)
           e == IF EvaluatorInit(repo, config, config_file) # "none"
                THEN EvaluatorInit(repo, config, config_file) ELSE EvaluateError(settings)
       IN  IF e # "none"
           THEN Exit("evaluate", e) /\ UNCHANGED metrics
           ELSE Continue("output") /\ metrics' = evaluate(repo, settings)
    /\ UNCHANGED <<config_file, paper_file, config, paper, plan, analysis, repo, printed>>

\* lines 191-193: json.dumps raises TypeError, uncaught, on a value it cannot
\* serialise; the interpreter then ends with exit code 1
Output ==
    /\ pc = "output"
    /\ pc' = "done"
    /\ IF MetricsSerializable(metrics)
       THEN printed' = TRUE /\ exit_code' = 0 /\ err' = "none"
       ELSE printed' = FALSE /\ exit_code' = 1 /\ err' = "TypeError"
    /\ UNCHANGED <<config_file, paper_file, config, paper, plan, analysis, repo, metrics,
                   stages, failed>>

\* the resources a pipeline run is started on
PipelineConfigFiles ==
    {f \in ConfigFiles :
        f.training.k = "map" =>
            \/ f.training.f = NoTraining
            \/ \A x \in DOMAIN f.training.f : f.training.f[x].k # "absent"}

PipelinePapers ==
    LET Good == RawPaper("map", StrV(<<" ", "p1">>), StrV(<<"T", " ">>),
                         Shape("list", <<Item("dict", "str", <<" ", "x", " ">>),
                                         Item("str", "str", <<"x", " ", "y">>)>>, <<>>),
                         Shape("list", <<Item("dict", "str", <<"x">>)>>, <<>>),
                         Shape("list", <<Item("dict", "str", <<"x">>)>>, <<>>),
                         RefEntries("map", {"REF1"}), PdfParse("absent", NoShape))
    IN  {NoRawPaper("unreadable"), NoRawPaper("empty"), NoRawPaper("nonmap"),
         Good,
         [Good EXCEPT !.paper_id = Absent],
         [Good EXCEPT !.title = Absent],
         [Good EXCEPT !.abstract = Shape("list", <<Item("dict", "nonstr", <<>>)>>, <<>>)],
         [Good EXCEPT !.abstract = NoShape, !.pdf_parse = PdfParse("nonmap", NoShape)],
         [NoRawPaper("map") EXCEPT !.paper_id = IntV(7), !.title = StrV(<<"T">>)]}

Idle ==
    /\ config = NoConfig("absent")
    /\ paper = NoPaper
    /\ plan = NoPlan("null")
    /\ analysis = AnalysisList("null", <<>>)
    /\ repo = EmptyRepo
    /\ metrics = NoMetrics
    /\ err = "none"
    /\ stages = <<>>
    /\ failed = "none"
    /\ exit_code = 0 - 1
    /\ printed = FALSE

Init ==
    /\ pc = "load_config"
    /\ config_file \in PipelineConfigFiles
    /\ paper_file \in PipelinePapers
    /\ Idle

Next ==
    \/ LoadConfiguration
    \/ LoadPaper
    \/ ParsingStage
    \/ PlanningStage
    \/ AnalysisStage
    \/ CodeGenerationStage
    \/ EvaluationStage
    \/ Output

Spec == Init /\ [][Next]_vars

----------------------------------------------------------------------------
(* The components called on their own, each on every input of a bounded set *)

\* PaperParser(paper_json).parse()
CallPaperParser ==
    /\ pc = "call_parser"
    /\ pc' = "returned"
    /\ err' = IF PaperParserInit(paper_file) # "none"
              THEN PaperParserInit(paper_file) ELSE ParseError(paper_file)
    /\ paper' = IF err' = "none" THEN parse(paper_file) ELSE NoPaper
    /\ UNCHANGED <<config_file, paper_file, config, plan, analysis, repo, metrics, stages,
                   failed, exit_code, printed>>

InitParser ==
    /\ pc = "call_parser"
    /\ config_file = NoConfig("unreadable")
    /\ paper_file \in RawPapers
    /\ Idle

SpecParser == InitParser /\ [][CallPaperParser]_vars

\* load_configuration(config_path)
CallLoadConfiguration ==
    /\ pc = "call_load_configuration"
    /\ pc' = "call_generate_config"
    /\ config' = load_configuration(config_file)
    /\ UNCHANGED <<config_file, paper_file, paper, plan, analysis, repo, metrics, err,
                   stages, failed, exit_code, printed>>

\* Planner(paper).generate_config()
CallGenerateConfig ==
    /\ pc = "call_generate_config"
    /\ pc' = "returned"
    /\ IF GenerateConfigRaises(config_file)
       THEN err' = "AttributeError" /\ UNCHANGED plan
       ELSE err' = "none" /\ plan' = [NoPlan("map") EXCEPT !.config = generate_config(config_file)]
    /\ UNCHANGED <<config_file, paper_file, config, paper, analysis, repo, metrics, stages,
                   failed, exit_code, printed>>

InitConfig ==
    /\ pc = "call_load_configuration"
    /\ config_file \in ConfigFiles
    /\ paper_file = NoRawPaper("unreadable")
    /\ Idle

NextConfig == CallLoadConfiguration \/ CallGenerateConfig

SpecConfig == InitConfig /\ [][NextConfig]_vars

\* CodeGenerator(analysis, plan).generate_code()
CallCodeGenerator ==
    /\ pc = "call_code_generator"
    /\ pc' = "returned"
    /\ err' = IF CodeGeneratorInit(analysis, plan) # "none"
              THEN CodeGeneratorInit(analysis, plan) ELSE GenerateCodeError(analysis, plan)
    /\ repo' = IF err' = "none" THEN generate_code(analysis, plan) ELSE EmptyRepo
    /\ UNCHANGED <<config_file, paper_file, config, paper, plan, analysis, metrics, stages,
                   failed, exit_code, printed>>

\* the analysis lists and plans CodeGenerator is called on
ModuleNames ==
    {MainPy, PaperParserPy, CodeGeneratorPy, EvaluationPy, StrV(<<"extra.py">>),
     StrV(Marker("epochs")), StrV(<<>>), Absent}
AnalysisLists ==
    {AnalysisList("null", <<>>)}
        \cup {AnalysisList("list", items) :
                items \in SeqsUpTo({ModuleAnalysis(n, SpecOf(n)) : n \in ModuleNames}, MaxModules)}
PlanConfigs ==
    {NoConfig("absent"), NoConfig("map"), NoConfig("nonmap")}
        \cup {Config("map", t, e) :
                t \in TrainingSections,
                e \in {Section("absent", NoEvaluation), Section("nonmap", NoEvaluation),
                       Section("map", [n_way_sampling |-> IntV(3),
                                       evaluation_model |-> StrV(<<"gpt-x">>)]),
                       Section("map", [n_way_sampling |-> StrV(Marker("evaluation_model")),
                                       evaluation_model |-> StrV(Marker("batch_size"))])}}
Plans ==
    {NoPlan("null"), NoPlan("map")}
        \cup {Plan("map", OverallPlan("map", <<"T">>, <<>>, <<"x">>),
                   generate_architecture_design, c) : c \in PlanConfigs}

InitCodeGen ==
    /\ pc = "call_code_generator"
    /\ config_file = NoConfig("unreadable")
    /\ paper_file = NoRawPaper("unreadable")
    /\ config = NoConfig("absent")
    /\ paper = NoPaper
    /\ plan \in Plans
    /\ analysis \in AnalysisLists
    /\ repo = EmptyRepo
    /\ metrics = NoMetrics
    /\ err = "none"
    /\ stages = <<>>
    /\ failed = "none"
    /\ exit_code = 0 - 1
    /\ printed = FALSE

SpecCodeGen == InitCodeGen /\ [][CallCodeGenerator]_vars

\* Evaluator(repository, config).evaluate(); `stages` here logs the calls of the stub
CallEvaluator ==
    /\ pc = "call_evaluator"
    /\ pc' = "returned"
    /\ LET settings == EvaluatorSettings(config, config_file)
       IN  /\ err' = IF EvaluatorInit(repo, config, config_file) # "none"
                     THEN EvaluatorInit(repo, config, config_file) ELSE EvaluateError(settings)
           /\ metrics' = IF err' = "none" THEN evaluate(repo, settings) ELSE NoMetrics
           /\ stages' = IF err' = "none"
                        THEN StubCalls(GoldStandard \in DOMAIN repo, settings.n_way_sampling.i)
                        ELSE stages
    /\ UNCHANGED <<config_file, paper_file, config, paper, plan, analysis, repo,
                   failed, exit_code, printed>>

\* the repositories and configurations Evaluator is called on
RepoKeys == {MainPy, GoldStandard, StrV(<<"a.py">>)}
RepoTexts ==
    {<<>>, <<"def", " ", "f", "\n", "def", " ", "g">>, <<"x", "def", " ", " ", "y">>,
     <<"{", "def", "}", " ", "gold-standard">>}
Repositories == UNION {[keys -> RepoTexts] : keys \in SUBSET RepoKeys}
EvaluatorConfigs ==
    {NoConfig("absent"), NoConfig("map"), NoConfig("nonmap")}
        \cup {Config("map", Section("absent", NoTraining), e) : e \in EvaluationSections}
EvaluatorConfigFiles ==
    {NoConfig("unreadable"), NoConfig("nonmap"),
     Config("map", Section("absent", NoTraining),
            Section("map", [n_way_sampling |-> IntV(1), evaluation_model |-> Absent]))}

InitEvaluator ==
    /\ pc = "call_evaluator"
    /\ config_file \in EvaluatorConfigFiles
    /\ paper_file = NoRawPaper("unreadable")
    /\ config \in EvaluatorConfigs
    /\ paper = NoPaper
    /\ plan = NoPlan("null")
    /\ analysis = AnalysisList("null", <<>>)
    /\ repo \in Repositories
    /\ metrics = NoMetrics
    /\ err = "none"
    /\ stages = <<>>
    /\ failed = "none"
    /\ exit_code = 0 - 1
    /\ printed = FALSE

SpecEvaluator == InitEvaluator /\ [][CallEvaluator]_vars

\* Planner(paper).create_overall_plan()
CallCreateOverallPlan ==
    /\ pc = "call_planner"
    /\ Len(stages) < MaxCalls
    /\ stages' = Append(stages, "create_overall_plan")
    /\ plan' = [plan EXCEPT !.k = "map", !.overall_plan = create_overall_plan(paper)]
    /\ UNCHANGED <<pc, config_file, paper_file, config, paper, analysis, repo, metrics, err,
                   failed, exit_code, printed>>

\* Planner(paper).generate_architecture_design()
CallGenerateArchitectureDesign ==
    /\ pc = "call_planner"
    /\ Len(stages) < MaxCalls
    /\ stages' = Append(stages, "generate_architecture_design")
    /\ plan' = [plan EXCEPT !.k = "map", !.architecture_design = generate_architecture_design]
    /\ UNCHANGED <<pc, config_file, paper_file, config, paper, analysis, repo, metrics, err,
                   failed, exit_code, printed>>

\* the papers Planner is called on; in their texts every symbol is one
\* character, so that Len is len().  The abstracts are those of at most one
\* character and those whose length is within MaxOver of the excerpt limit.
PlannerText(n, tail) == [i \in 1..n |-> IF i <= ExcerptLimit THEN "a" ELSE tail]
PlannerAbstracts ==
    {PlannerText(n, tail) :
        n \in {0, 1} \cup ((ExcerptLimit - MaxOver)..(ExcerptLimit + MaxOver)),
        tail \in {"b", "."}}
PlannerPapers ==
    {Paper(<<"p1">>, <<"T">>, a, b, <<>>, {}) : a \in PlannerAbstracts, b \in {<<>>, <<"x">>}}

InitPlanner ==
    /\ pc = "call_planner"
    /\ config_file = NoConfig("unreadable")
    /\ paper_file = NoRawPaper("unreadable")
    /\ config = NoConfig("absent")
    /\ paper \in PlannerPapers
    /\ plan = NoPlan("null")
    /\ analysis = AnalysisList("null", <<>>)
    /\ repo = EmptyRepo
    /\ metrics = NoMetrics
    /\ err = "none"
    /\ stages = <<>>
    /\ failed = "none"
    /\ exit_code = 0 - 1
    /\ printed = FALSE

NextPlanner == CallCreateOverallPlan \/ CallGenerateArchitectureDesign

SpecPlanner == InitPlanner /\ [][NextPlanner]_vars

\* Analyzer(plan).analyze_modules()
CallAnalyzer ==
    /\ pc = "call_analyzer"
    /\ pc' = "returned"
    /\ IF AnalyzerInit(plan) # "none"
       THEN err' = AnalyzerInit(plan) /\ UNCHANGED <<plan, analysis>>
       ELSE /\ err' = "none"
            /\ plan' = AnalyzerPlanAfter(plan)
            /\ analysis' = AnalysisList("list", analyze_modules(AnalyzerFileList(plan)))
    /\ UNCHANGED <<config_file, paper_file, config, paper, repo, metrics, stages, failed,
                   exit_code, printed>>

\* the plans Analyzer is called on: file lists of known names, unknown names,
\* an empty name and None, duplicates included
AnalyzerNames == {MainPy, EvaluationPy, StrV(<<"extra.py">>), StrV(<<>>), NullV}
AnalyzerFileLists ==
    {FileList("absent", <<>>)}
        \cup {FileList("list", names) : names \in SeqsUpTo(AnalyzerNames, MaxNames)}
AnalyzerArchs ==
    {NoArch("absent")}
        \cup {Arch("map", l, d, d) :
                l \in AnalyzerFileLists, d \in {Absent, StrV(<<"diagram">>)}}
AnalyzerPlans ==
    {NoPlan("null")}
        \cup {Plan("map", OverallPlan("map", <<"T">>, <<>>, <<"x">>), a, DefaultConfig) :
                a \in AnalyzerArchs}

InitAnalyzer ==
    /\ pc = "call_analyzer"
    /\ config_file = NoConfig("unreadable")
    /\ paper_file = NoRawPaper("unreadable")
    /\ config = NoConfig("absent")
    /\ paper = NoPaper
    /\ plan \in AnalyzerPlans
    /\ analysis = AnalysisList("null", <<>>)
    /\ repo = EmptyRepo
    /\ metrics = NoMetrics
    /\ err = "none"
    /\ stages = <<>>
    /\ failed = "none"
    /\ exit_code = 0 - 1
    /\ printed = FALSE

SpecAnalyzer == InitAnalyzer /\ [][CallAnalyzer]_vars

----------------------------------------------------------------------------
(* The claims *)

Last(s) == s[Len(s)]
IsPrefix(s, t) == Len(s) <= Len(t) /\ s = SubSeq(t, 1, Len(s))

\* C1: the stages of run_pipeline start in the fixed order parse, plan,
\* analysis, codegen, evaluate, each at most once; a stage that failed is the
\* last stage started, and the run is over once a stage has failed.
C1_StagesInOrder ==
    /\ IsPrefix(stages, StageOrder)
    /\ failed # "none" =>
         /\ pc = "done"
         /\ IF failed = "load_paper" THEN stages = <<>> ELSE stages # <<>> /\ failed = Last(stages)
    /\ pc = "plan" => stages = <<"parse">>
    /\ pc = "analysis" => stages = <<"parse", "plan">>
    /\ pc = "codegen" => stages = <<"parse", "plan", "analysis">>
    /\ pc = "evaluate" => stages = <<"parse", "plan", "analysis", "codegen">>

\* a run whose evaluation stage failed after the four earlier stages succeeded
C1_Witness == pc = "done" /\ failed = "evaluate" /\ stages = StageOrder

\* C2: a run ends either with all five stages succeeded, the result printed
\* and exit code 0, or with a failed stage, nothing printed and a non-zero
\* exit code.
C2_TwoOutcomes ==
    pc = "done" =>
        \/ stages = StageOrder /\ failed = "none" /\ printed /\ exit_code = 0
        \/ failed # "none" /\ ~printed /\ exit_code # 0

Position(names, n) == CHOOSE i \in 1..Len(names) : names[i] = n
InList(names, n) == \E i \in 1..Len(names) : names[i] = n
Dependencies(n) == {module_specs(n).dependencies[i] : i \in 1..Len(module_specs(n).dependencies)}

\* the modules reachable from n along at most k dependency edges (k >= 1)
RECURSIVE Reachable(_, _)
Reachable(n, k) ==
    IF k = 0 THEN {}
    ELSE Dependencies(n) \cup UNION {Reachable(d, k - 1) : d \in Dependencies(n)}

\* C3: in the file list of the architecture design every dependency of a
\* module names a module of the list and stands strictly before the module,
\* and no module depends on itself through a chain of dependencies.
C3_DependenciesPrecede ==
    plan.k = "map" =>
        LET names == plan.architecture_design.file_list.names
        IN  \A i \in 1..Len(names) :
                /\ \A d \in Dependencies(names[i]) :
                       InList(names, d) /\ Position(names, d) < i
                /\ names[i] \notin Reachable(names[i], Len(names))

\* C4: the analysis stage, run on the file list of
\* generate_architecture_design, yields six analyses, in the order of that
\* list, each carrying the static table's entry for its name and none the fallback.
C4_SixAnalysesFromTable ==
    pc \in {"codegen", "evaluate", "output"} =>
        /\ Len(analysis.items) = 6
        /\ \A i \in 1..Len(analysis.items) :
               LET a == analysis.items[i]
               IN  /\ a.file_name = PlannerFileList[i]
                   /\ a.functionality = module_specs(a.file_name).functionality
                   /\ a.expected_inputs = module_specs(a.file_name).expected_inputs
                   /\ a.expected_outputs = module_specs(a.file_name).expected_outputs
                   /\ a.dependencies = module_specs(a.file_name).dependencies
                   /\ a.functionality # DefaultModuleSpec.functionality

\* the analysis stage has just returned its list
C4_Witness == pc = "codegen" /\ analysis.k = "list" /\ Len(analysis.items) = 6

\* C5: a paper record without paper_id or without title makes the parser fail
\* with ValueError, and no paper is produced.
C5_MissingIdOrTitleFails ==
    (pc = "returned" /\ (paper_file.paper_id.k = "absent" \/ paper_file.title.k = "absent")) =>
        err = "ValueError" /\ paper = NoPaper

\* the parser was called on a record that has paper_id but no title
C5_Witness ==
    /\ pc = "returned"
    /\ paper_file.paper_id.k # "absent"
    /\ paper_file.title.k = "absent"
    /\ err = "ValueError"

\* C6: a paper record with paper_id and title always parses, to a paper whose
\* id and title are the trimmed input values, whatever its optional fields are.
C6_ParseNeverFails ==
    (pc = "returned" /\ paper_file.paper_id.k # "absent" /\ paper_file.title.k # "absent") =>
        /\ err = "none"
        /\ paper.paper_id = _clean_text(Str(paper_file.paper_id))
        /\ paper.title = _clean_text(Str(paper_file.title))

ConfigMissingOrEmpty(p) == p.k = "null" \/ p.config.k = "absent" \/ p.config = NoConfig("map")
AnalysisMissingOrEmpty(a) == a.k = "null" \/ a.items = <<>>

C8_EmptyRepositoryFails ==
    (pc = "returned" /\ DOMAIN repo = {}) => err = "ValueError" /\ metrics = NoMetrics

\* the evaluator was called on an empty repository without a configuration
C8_Witness ==
    pc = "returned" /\ DOMAIN repo = {} /\ config.k = "absent" /\ err = "ValueError"

\* the value the resource gives a field, its default when the resource has none
Expected(file, section, x, defaults) ==
    IF file.k = "map" /\ file[section].k = "map" /\ file[section].f[x].k # "absent"
    THEN file[section].f[x] ELSE defaults[x]

\* C9: whatever the configuration resource, neither loader raises, and each
\* of the five fields of both results is the resource's value when the resource
\* has the field and the default otherwise.
C9_FieldByFieldDefaults ==
    pc = "returned" =>
        /\ err = "none"
        /\ \A x \in DOMAIN NoTraining :
               /\ config.training.f[x] = Expected(config_file, "training", x, DefaultTraining)
               /\ plan.config.training.f[x] = Expected(config_file, "training", x, DefaultTraining)
        /\ \A x \in DOMAIN NoEvaluation :
               /\ config.evaluation.f[x] = Expected(config_file, "evaluation", x, DefaultEvaluation)
               /\ plan.config.evaluation.f[x]
                      = Expected(config_file, "evaluation", x, DefaultEvaluation)

Markers ==
    {Marker(n) : n \in {"learning_rate", "batch_size", "epochs", "n_way_sampling",
                        "evaluation_model"}}
NoMarker(text) == \A m \in Markers : ~Contains(text, m)
BraceFree(text) == \A i \in 1..Len(text) : text[i] \notin {"{", "}"}
AllFieldsPresent(c) ==
    /\ c.k = "map" /\ c.training.k = "map" /\ c.evaluation.k = "map"
    /\ \A x \in DOMAIN c.training.f : c.training.f[x].k # "absent"
    /\ \A x \in DOMAIN c.evaluation.f : c.evaluation.f[x].k # "absent"
ValuesBraceFree(c) ==
    /\ \A x \in DOMAIN c.training.f : BraceFree(Str(c.training.f[x]))
    /\ \A x \in DOMAIN c.evaluation.f : BraceFree(Str(c.evaluation.f[x]))

\* what C10 says of the generated repository
MarkersSubstituted(c, r, names) ==
    /\ CodeGeneratorPy \in DOMAIN r =>
          /\ Contains(r[CodeGeneratorPy], Str(c.training.f.learning_rate))
          /\ Contains(r[CodeGeneratorPy], Str(c.training.f.batch_size))
          /\ Contains(r[CodeGeneratorPy], Str(c.training.f.epochs))
          /\ NoMarker(r[CodeGeneratorPy])
    /\ \A n \in names : NoMarker(r[n])

HasName(a) == a.file_name.k # "absent" /\ Str(a.file_name) # <<>>
NamedAnalyses(items) == {i \in 1..Len(items) : HasName(items[i])}
ValidNames(items) == {items[i].file_name : i \in NamedAnalyses(items)}

GivenFileList(p) == p.architecture_design.file_list.names
Unknown(name) == name \notin ModuleSpecNames

SamplesAtLeastOnce ==
    /\ EvaluatorInit(repo, config, config_file) = "none"
    /\ EvaluatorSettings(config, config_file).n_way_sampling.k = "int"
    /\ EvaluatorSettings(config, config_file).n_way_sampling.i >= 1

\* C13: on a repository that is not empty and has no "gold_standard" key,
\* with n_way_sampling >= 1, evaluate returns no reference-based score and the
\* reference-free score 4.5 (450 hundredths), whatever the texts and the
\* number of samples.
C13_ReferenceFreeScore ==
    (pc = "returned" /\ DOMAIN repo # {} /\ GoldStandard \notin DOMAIN repo
        /\ SamplesAtLeastOnce) =>
        /\ err = "none"
        /\ metrics.reference_based_score.k = "none"
        /\ metrics.reference_free_score = [k |-> "num", i |-> 450]

\* two samples were taken on a text that mentions gold-standard, under a key
\* that is not the sentinel
C13_Witness ==
    /\ pc = "returned"
    /\ err = "none"
    /\ DOMAIN repo = {MainPy}
    /\ Contains(repo[MainPy], <<"gold-standard">>)
    /\ metrics.n_way_sampling = IntV(2)
    /\ metrics.reference_free_score.k = "num"

\* the whitespace-delimited tokens of a text, counted at their first symbol
Tokens(code) ==
    Cardinality({i \in 1..Len(code) :
        ~IsSpace(code[i]) /\ (i = 1 \/ IsSpace(code[i - 1]))})

\* the occurrences of def that stand between two word boundaries
RECURSIVE Keywords(_, _)
Keywords(code, i) ==
    IF i > Len(code) THEN 0
    ELSE (IF /\ code[i] = "def"
             /\ (i = 1 \/ code[i - 1] \in {" ", "\n", "{", "}", ":", "=", "#", "."})
             /\ (i = Len(code) \/ code[i + 1] \in {" ", "\n", "{", "}", ":", "=", "#", "."})
          THEN 1 ELSE 0) + Keywords(code, i + 1)

\* the sum of a count over the entries of a repository
OverEntries(r, Count(_)) ==
    LET At(k) == IF k \in DOMAIN r THEN Count(r[k]) ELSE 0
    IN  At(MainPy) + At(GoldStandard) + At(StrV(<<"a.py">>))
KeywordsOf(code) == Keywords(code, 1)

\* C14: the summary statistics of a repository are its number of entries
\* (gold_standard included), the sum of the entries' whitespace-delimited
\* tokens and the sum of the entries' word-boundary occurrences of def; they
\* are a function of the repository alone, not of the configuration.
C14_SummaryStatistics ==
    (pc = "returned" /\ err = "none") =>
        /\ metrics.summary_statistics.file_count = Cardinality(DOMAIN repo)
        /\ metrics.summary_statistics.total_tokens = OverEntries(repo, Tokens)
        /\ metrics.summary_statistics.function_count = OverEntries(repo, KeywordsOf)

\* a repository with a gold_standard entry and a def inside a longer word
C14_Witness ==
    /\ pc = "returned"
    /\ err = "none"
    /\ DOMAIN repo = {MainPy, GoldStandard}
    /\ repo[MainPy] = <<"x", "def", " ", " ", "y">>
    /\ repo[GoldStandard] = <<"def", " ", "f", "\n", "def", " ", "g">>
    /\ metrics.summary_statistics = [file_count |-> 2, total_tokens |-> 6, function_count |-> 2]

\* a paper record that holds nothing but a plain-string abstract
OnlyAbstract(s) ==
    [NoRawPaper("map") EXCEPT !.paper_id = StrV(<<"p1">>), !.title = StrV(<<"T">>),
                              !.abstract = Shape("str", <<>>, s)]

\* C15: the abstract that parse extracts is a fixed point of the plain-string
\* branch: parsed again as a plain-string abstract it comes back unchanged, so
\* it has no whitespace at either end.
C15_AbstractIdempotent ==
    (pc = "returned" /\ err = "none") =>
        /\ ParseAbstract(OnlyAbstract(paper.abstract)) = paper.abstract
        /\ paper.abstract # <<>> =>
               ~IsSpace(paper.abstract[1]) /\ ~IsSpace(paper.abstract[Len(paper.abstract)])

\* the trimmed texts of the entries of a sequence, records and plain strings
\* alike, that are not empty
RECURSIVE NonEmptyTrimmed(_)
NonEmptyTrimmed(items) ==
    IF items = <<>> THEN <<>>
    ELSE LET item == Head(items)
             text == IF item.k \in {"dict", "str"} /\ item.t = "str"
                     THEN RStrip(LStrip(item.s)) ELSE <<>>
         IN  (IF text = <<>> THEN <<>> ELSE <<text>>) \o NonEmptyTrimmed(Tail(items))

NoDoubleSpace(s) == \A i \in 1..(Len(s) - 1) : ~(s[i] = " " /\ s[i + 1] = " ")

\* C16: an abstract given as a sequence of records and plain strings is
\* extracted as the non-empty trimmed texts, in order, joined by one space;
\* it neither begins nor ends with a space nor holds two spaces in a row.
C16_AbstractJoinsNonEmpty ==
    (pc = "returned" /\ err = "none" /\ paper_file.abstract.k = "list"
        /\ paper_file.abstract.items # <<>>) =>
        /\ paper.abstract = Join(NonEmptyTrimmed(paper_file.abstract.items), <<" ">>)
        /\ paper.abstract # <<>> =>
               paper.abstract[1] # " " /\ paper.abstract[Len(paper.abstract)] # " "
        /\ NoDoubleSpace(paper.abstract)

\* raw.abstract is neither a sequence nor a string with content: it is
\* absent, null, empty, or of another shape
AbstractUnusable(sh) ==
    \/ sh.k \in {"absent", "null", "other"}
    \/ sh.k = "list" /\ sh.items = <<>>
    \/ sh.k = "str" /\ sh.s = <<>>

\* the two sub-rules: a sequence gives its non-empty trimmed texts joined by
\* one space, a string its trimmed value, anything else nothing
BySubRules(sh) ==
    IF sh.k = "list" THEN Join(NonEmptyTrimmed(sh.items), <<" ">>)
    ELSE IF sh.k = "str" THEN RStrip(LStrip(sh.s))
    ELSE <<>>

\* C20: when raw.abstract is neither a sequence nor a string, the abstract is
\* what the two sub-rules give for pdf_parse.abstract, and empty only when
\* that is not usable either.
C20_PdfParseFallback ==
    (pc = "returned" /\ err = "none" /\ AbstractUnusable(paper_file.abstract)) =>
        paper.abstract =
            IF paper_file.pdf_parse.k = "map" THEN BySubRules(paper_file.pdf_parse.abstract)
            ELSE <<>>

\* C17: the abstract excerpt of the overall plan is the abstract itself when
\* the abstract has at most 200 characters, and its first 200 characters
\* followed by three dots when it has 201 or more.
C17_ExcerptBoundary ==
    plan.overall_plan.k = "map" =>
        LET a == paper.abstract
            e == plan.overall_plan.paper_summary.abstract_excerpt
        IN  /\ Len(a) <= 200 => e = a
            /\ Len(a) >= 201 =>
                  /\ Len(e) = 203
                  /\ \A i \in 1..200 : e[i] = a[i]
                  /\ \A i \in 201..203 : e[i] = "."

\* the plan of a paper whose abstract has 201 characters, the last being a dot
C17_Witness ==
    /\ plan.overall_plan.k = "map"
    /\ Len(paper.abstract) = 201
    /\ paper.abstract[201] = "."
    /\ Len(plan.overall_plan.paper_summary.abstract_excerpt) = 203

\* C18: every call of generate_architecture_design, for every paper and
\* after any earlier calls, returns the same list of six different names,
\* main.py, paper_parser.py, planner.py, analyzer.py, code_generator.py and
\* evaluation.py, and the same two diagram texts.
C18_FixedArchitecture ==
    plan.architecture_design.k = "map" =>
        LET names == plan.architecture_design.file_list.names
        IN  /\ names = <<StrV(<<"main.py">>), StrV(<<"paper_parser.py">>),
                         StrV(<<"planner.py">>), StrV(<<"analyzer.py">>),
                         StrV(<<"code_generator.py">>), StrV(<<"evaluation.py">>)>>
            /\ \A i, j \in 1..Len(names) : names[i] = names[j] => i = j
            /\ plan.architecture_design.class_diagram = StrV(<<"classDiagram">>)
            /\ plan.architecture_design.sequence_diagram = StrV(<<"sequenceDiagram">>)

\* the architecture was generated a second time, after the overall plan
C18_Witness ==
    /\ stages = <<"generate_architecture_design", "create_overall_plan",
                  "generate_architecture_design">>
    /\ plan.architecture_design.k = "map"
    /\ paper.abstract # <<>>

NamesOf(items) == [i \in 1..Len(items) |-> items[i].file_name]

\* C19 as stated: for every file list of the architecture the analyzer
\* returns, without failing, as many analyses as the list has names, the i-th
\* carrying the i-th name.
C19_SameLengthSameOrder ==
    (pc = "returned" /\ plan.k = "map" /\ plan.architecture_design.file_list.k = "list") =>
        /\ err = "none"
        /\ Len(analysis.items) = Len(GivenFileList(plan))
        /\ NamesOf(analysis.items) = GivenFileList(plan)

\* C19, amended: for every file list that is not empty the analyzer returns,
\* without failing, one analysis per name, in the order of the list, unknown
\* names and duplicates included; for an empty or missing file list it
\* returns the analyses of its own six-name default list.
C19_NonEmptyListKept ==
    (pc = "returned" /\ plan.k = "map") =>
        /\ err = "none"
        /\ IF plan.architecture_design.file_list.k = "list" /\ GivenFileList(plan) # <<>>
           THEN /\ Len(analysis.items) = Len(GivenFileList(plan))
                /\ NamesOf(analysis.items) = GivenFileList(plan)
           ELSE NamesOf(analysis.items)
                    = <<StrV(<<"main.py">>), StrV(<<"paper_parser.py">>),
                        StrV(<<"planner.py">>), StrV(<<"analyzer.py">>),
                        StrV(<<"code_generator.py">>), StrV(<<"evaluation.py">>)>>

\* a file list with an unknown name twice and a known name after it was analysed
C19_Witness ==
    /\ pc = "returned"
    /\ err = "none"
    /\ GivenFileList(plan) = <<StrV(<<"extra.py">>), StrV(<<"extra.py">>), MainPy>>
    /\ Len(analysis.items) = 3

\* C21: the figures are the trimmed texts of the records and plain strings of
\* back_matter that are not empty after trimming, in input order, so no figure
\* is the empty string; without a back_matter sequence there are no figures.
C21_FiguresNonEmpty ==
    (pc = "returned" /\ err = "none") =>
        /\ paper.figures =
               IF paper_file.back_matter.k = "list"
               THEN NonEmptyTrimmed(paper_file.back_matter.items) ELSE <<>>
        /\ \A i \in 1..Len(paper.figures) : paper.figures[i] # <<>>

\* the evaluator can be constructed and n_way_sampling is an integer
EvaluatorRuns ==
    /\ EvaluatorInit(repo, config, config_file) = "none"
    /\ EvaluatorSettings(config, config_file).n_way_sampling.k = "int"

CallsOf(prompt) == Cardinality({i \in 1..Len(stages) : stages[i] = prompt})

\* C22: the reference-based score exists exactly for a repository with the
\* key "gold_standard" (given n_way_sampling >= 1) and is then 4.0 (400
\* hundredths) next to a reference-free score of 4.5; an evaluate call invokes
\* the stub n_way_sampling times for the reference-free prompt, and as often
\* for the reference-based prompt with the key, never without it.
C22_ReferenceBasedIffGoldStandard ==
    (pc = "returned" /\ EvaluatorRuns) =>
        LET n == EvaluatorSettings(config, config_file).n_way_sampling.i
            gold == StrV(<<"gold_standard">>) \in DOMAIN repo
        IN  /\ err = "none"
            /\ n >= 1 =>
                  /\ (metrics.reference_based_score.k = "num") <=> gold
                  /\ gold => metrics.reference_based_score.i = 400
                  /\ metrics.reference_free_score = [k |-> "num", i |-> 450]
            /\ n >= 0 =>
                  /\ CallsOf("prompt_free") = n
                  /\ CallsOf("prompt_ref") = IF gold THEN n ELSE 0
            /\ Len(stages) = CallsOf("prompt_free") + CallsOf("prompt_ref")

\* two samples of each prompt were taken on a repository with the sentinel key
C22_Witness ==
    /\ pc = "returned"
    /\ err = "none"
    /\ DOMAIN repo = {MainPy, GoldStandard}
    /\ metrics.n_way_sampling = IntV(2)
    /\ metrics.reference_based_score.k = "num"
    /\ stages = <<"prompt_ref", "prompt_free", "prompt_ref", "prompt_free">>

C24_AbsentPlaceholderNoOp ==
    DOMAIN repo # {} =>
        /\ repo[MainPy] = MainTemplate
        /\ \A n \in {PaperParserPy, PlannerPy, AnalyzerPy} :
               repo[n] = ImplementedTemplate(n.s, module_specs(n).functionality)
        /\ repo[EvaluationPy] =
               Replace(Replace(EvaluationTemplate, <<"{", "n_way_sampling", "}">>,
                               Str(plan.config.evaluation.f.n_way_sampling)),
                       <<"{", "evaluation_model", "}">>,
                       Str(plan.config.evaluation.f.evaluation_model))

\* the six modules were generated under a configuration whose learning_rate
\* is the text of the marker {epochs}
C24_Witness ==
    /\ pc = "evaluate"
    /\ Cardinality(DOMAIN repo) = 6
    /\ plan.config.training.f.learning_rate = StrV(<<"{", "epochs", "}">>)
    /\ plan.config.training.f.epochs = IntV(5)
    /\ plan.config.evaluation.f.evaluation_model = StrV(<<"gpt-x">>)

\* C25: a component call changes nothing of what it was handed: the analyzer
\* leaves the plan as it was, the code generator the analysis list and the
\* plan, the evaluator the repository and the configuration.
C25_StagesLeaveInputsUnchanged ==
    [][/\ pc = "call_analyzer" => plan' = plan
       /\ pc = "call_code_generator" => analysis' = analysis /\ plan' = plan
       /\ pc = "call_evaluator" => repo' = repo /\ config' = config]_vars

\* the string form of the value a marker stands for, its default when the
\* configuration has none
ValueOf(p, name) ==
    LET section == IF name \in {"learning_rate", "batch_size", "epochs"}
                   THEN p.config.training ELSE p.config.evaluation
        given == p.config.k = "map" /\ section.k = "map" /\ section.f[name].k # "absent"
    IN  IF given THEN Str(section.f[name])
        ELSE CASE name = "learning_rate" -> <<"0.001">>
               [] name = "batch_size" -> <<"32">>
               [] name = "epochs" -> <<"10">>
               [] name = "n_way_sampling" -> <<"8">>
               [] name = "evaluation_model" -> <<"o3-mini-high">>

MarkerNames == {"learning_rate", "batch_size", "epochs", "n_way_sampling", "evaluation_model"}

\* the simultaneous substitution: every occurrence of a marker in the template
\* itself gives way to its value, and what is put in is not looked at again
RECURSIVE Simultaneous(_, _)
Simultaneous(p, template) ==
    IF template = <<>> THEN <<>>
    ELSE IF Len(template) >= 3 /\ template[1] = "{" /\ template[3] = "}"
            /\ template[2] \in MarkerNames
         THEN ValueOf(p, template[2]) \o Simultaneous(p, SubSeq(template, 4, Len(template)))
         ELSE <<Head(template)>> \o Simultaneous(p, Tail(template))

\* the template text written for a module name
TemplateOf(name) ==
    LET details == IF name \in ModuleSpecNames THEN module_specs(name).functionality
                   ELSE <<"No", " ", "specific", " ", "functionality", " ", "defined.">>
    IN  _generate_template(name, details)

\* C26: the text generated for a module is its template with every marker of
\* the template replaced at once by its own value; what a value, the module
\* name or the functionality text brings in is not substituted again.
C26_SimultaneousSubstitution ==
    (pc = "returned" /\ err = "none") =>
        \A name \in DOMAIN repo : repo[name] = Simultaneous(plan, TemplateOf(name))

\* the run has come to its evaluation stage
ReachedEvaluation == pc = "evaluate" \/ \E j \in 1..Len(stages) : stages[j] = "evaluate"

\* C27: in a run that reaches the evaluation stage the configuration in the
\* plan (the one put into the templates) and the configuration main loaded
\* (the one handed to the Evaluator) have the same five fields, and the
\* n_way_sampling and evaluation_model of the metrics are the values whose
\* string forms stand in the generated evaluation module.
C27_ConfigurationsAgree ==
    ReachedEvaluation =>
        /\ config.k = "map" /\ plan.config.k = "map"
        /\ config.training.k = "map" /\ plan.config.training.k = "map"
        /\ config.evaluation.k = "map" /\ plan.config.evaluation.k = "map"
        /\ \A x \in {"learning_rate", "batch_size", "epochs"} :
               config.training.f[x] = plan.config.training.f[x]
        /\ \A x \in {"n_way_sampling", "evaluation_model"} :
               config.evaluation.f[x] = plan.config.evaluation.f[x]
        /\ metrics.k = "map" =>
               /\ metrics.n_way_sampling = plan.config.evaluation.f.n_way_sampling
               /\ metrics.evaluation_model = plan.config.evaluation.f.evaluation_model
               /\ repo[EvaluationPy] =
                      Replace(Replace(EvaluationTemplate, <<"{", "n_way_sampling", "}">>,
                                      Str(metrics.n_way_sampling)),
                              <<"{", "evaluation_model", "}">>, Str(metrics.evaluation_model))

\* a run was evaluated under a resource that gives n_way_sampling and leaves
\* the evaluation model and the training section to their defaults
C27_Witness ==
    /\ pc = "done" /\ printed
    /\ config_file.k = "map"
    /\ config_file.training.k = "absent"
    /\ config_file.evaluation.k = "map"
    /\ config_file.evaluation.f.n_way_sampling = IntV(2)
    /\ config_file.evaluation.f.evaluation_model = Absent
    /\ metrics.n_way_sampling = IntV(2)
    /\ metrics.evaluation_model = StrV(<<"o3-mini-high">>)
    /\ config.training.f.epochs = StrV(<<"10">>)

\* the six names of the fixed architecture
SixNames == {MainPy, PaperParserPy, PlannerPy, AnalyzerPy, CodeGeneratorPy, EvaluationPy}

\* the repository and the metrics as functions of the configuration resource
\* alone: no paper stands in either
RepoOf(file) ==
    [n \in SixNames |-> _inject_configuration([config |-> generate_config(file)], TemplateOf(n))]
MetricsOf(file) ==
    evaluate(RepoOf(file), EvaluatorSettings(load_configuration(file), file))

\* whenever a repository was generated, it and the metrics are functions of
\* the configuration resource alone
PaperFreeWhenGenerated ==
    /\ DOMAIN repo # {} =>
           /\ DOMAIN repo = SixNames /\ Cardinality(DOMAIN repo) = 6
           /\ GoldStandard \notin DOMAIN repo
           /\ repo = RepoOf(config_file)
    /\ metrics.k = "map" =>
           /\ metrics.reference_based_score = Score("none", 0)
           /\ metrics.summary_statistics.file_count = 6
           /\ metrics = MetricsOf(config_file)

\* the paper record has an id and a title
HasIdAndTitle(raw) == raw.k = "map" /\ raw.paper_id.k # "absent" /\ raw.title.k # "absent"

\* C28: what a run produces does not depend on the paper: under a
\* configuration resource that lets the planning stage pass, the run on any
\* paper record with an id and a title ends with the six-key repository (never
\* the key gold_standard) whose texts are a function of the resource alone,
\* and its metrics, when the evaluation yields them, have no reference-based
\* score, a file count of 6, and are a function of the resource alone.
C28_PaperIndependent ==
    (pc = "done" /\ HasIdAndTitle(paper_file) /\ ~GenerateConfigRaises(config_file)) =>
        /\ DOMAIN repo = SixNames /\ Cardinality(DOMAIN repo) = 6
        /\ GoldStandard \notin DOMAIN repo
        /\ repo = RepoOf(config_file)
        /\ metrics.k = "map" =>
               /\ metrics.reference_based_score = Score("none", 0)
               /\ metrics.summary_statistics.file_count = 6
               /\ metrics = MetricsOf(config_file)

\* the plan gives the analyzer no name to work on: no architecture, or one
\* whose file list is missing or empty (an empty architecture stored in the
\* plan holds the default list once the analyzer was constructed)
NoNamesGiven(p) ==
    \/ p.architecture_design.k = "absent"
    \/ p.architecture_design.file_list.k = "absent"
    \/ p.architecture_design.file_list.names = <<>>

\* C29: analyze_modules never returns an empty list: whenever the analyzer
\* returns, the list has at least one analysis, and for a plan without
\* architecture or without a non-empty file list it has the six analyses of
\* the default list; every analysis it returns for the planner's own
\* architecture has a name, so the repository generated from it is not empty.
C29_AnalysisNeverEmpty ==
    (pc = "returned" /\ err = "none") =>
        /\ analysis.k = "list" /\ Len(analysis.items) >= 1
        /\ (NoNamesGiven(plan) \/ GivenFileList(plan) = AnalyzerDefaultFileList)
               => Len(analysis.items) = 6
        /\ Len(analysis.items) = 6 => \A i \in 1..6 : HasName(analysis.items[i])

\* the analyzer returned six analyses for a non-empty architecture whose file
\* list is empty
C29_Witness ==
    /\ pc = "returned"
    /\ err = "none"
    /\ plan.architecture_design.k = "map"
    /\ plan.architecture_design.class_diagram = StrV(<<"diagram">>)
    /\ plan.architecture_design.file_list = FileList("list", <<>>)
    /\ Len(analysis.items) = 6
    /\ analysis.items[1].file_name = MainPy

\* in the pipeline the exits 'analysis list is empty' (main.py 162-164) and
\* 'no repository files were generated' (main.py 174-176) are never taken
PipelineEmptyExitsUnreachable ==
    /\ failed # "analysis"
    /\ ~(failed = "codegen" /\ err = "none")
    /\ (\E j \in 1..Len(stages) : stages[j] = "analysis") => Len(analysis.items) = 6
    /\ (\E j \in 1..Len(stages) : stages[j] = "codegen") => Cardinality(DOMAIN repo) = 6
====
